---- MODULE Spec2Model ----
(***************************************************************************)
(* Model of ql-docker.py: run_login, the sequential GitHub-OAuth login     *)
(* walk for the ClawCloud console, with mask_account, send_tg_message,     *)
(* find_chrome and find_chromedriver.                                      *)
(*                                                                         *)
(* Strings whose characters the code inspects (the account, the password,  *)
(* the 2FA secret) are sequences of one-character strings.  URLs and page  *)
(* sources are sequences of tokens; `x in s` is "some token of s is x",    *)
(* which is exact for the keywords the code looks for because none of them *)
(* is a substring of another.  The browser, the site and the file system   *)
(* are the environment: every call into Selenium either returns or raises, *)
(* and every URL / page read returns any value of URLS / PAGES.            *)
(***************************************************************************)
EXTENDS Integers, Sequences, FiniteSets, TLC

VARIABLES
    environ,        \* os.environ: GH_USERNAME, GH_PASSWORD, GH_2FA_SECRET, TG_BOT_TOKEN, TG_CHAT_ID
    files,          \* the paths for which os.path.exists is true
    pc,             \* position of run_login
    username,       \* local username (stripped)
    password,       \* local password (stripped)
    totp_secret,    \* local totp_secret (stripped)
    masked_user,    \* local masked_user
    chrome_path,    \* local chrome_path (NONE when find_chrome returned None)
    driver,         \* local driver: NONE or "driver"
    exc,            \* the exception in flight towards `except Exception` (NONE when none)
    ret,            \* value returned (or being returned) by run_login: NONE, "True", "False"
    sent,           \* the calls of send_tg_message, in order: <<kind, delivery>>
    errlog,         \* the logger.error messages, in order (by kind)
    steps,          \* the browser steps begun, in order
    raisedAt,       \* the steps that raised an exception after the browser start
    twofa_reads,    \* what the `in` tests of the 2FA check (line 217) evaluated to, in order
    typed,          \* TOTP typing: "none", "partial" (raised while typing), "full"
    tried,          \* submit mechanisms attempted after typing the code, in order: <<mechanism, outcome>>
    final_url,      \* local final_url
    page_text,      \* local page_text (already lower-cased)
    is_success,     \* local is_success: NONE before the decision, then "True" / "False"
    shots,          \* the screenshots attempted (file names), in order
    quits           \* number of driver.quit() attempts

vars == <<environ, files, pc, username, password, totp_secret, masked_user,
          chrome_path, driver, exc, ret, sent, errlog, steps, raisedAt, twofa_reads,
          typed, tried, final_url, page_text, is_success,
          shots, quits>>

NONE == "None"

\* ------------------------------------------------------------------ strings

IsSpace(c) == c \in {" ", "\t", "\n"}

RECURSIVE LStrip(_)
LStrip(s) == IF s # <<>> /\ IsSpace(Head(s)) THEN LStrip(Tail(s)) ELSE s

RECURSIVE RStrip(_)
RStrip(s) ==
    IF s # <<>> /\ IsSpace(s[Len(s)]) THEN RStrip(SubSeq(s, 1, Len(s) - 1)) ELSE s

\* str.strip()
Strip(s) == RStrip(LStrip(s))

\* `c in s` for a character / token c
Contains(c, s) == \E i \in 1..Len(s) : s[i] = c

\* index of the first occurrence of c in s (c occurs in s)
IndexOf(c, s) == CHOOSE i \in 1..Len(s) : s[i] = c /\ \A j \in 1..(i - 1) : s[j] # c

\* s.split(c, 1) when c occurs in s
Split1(s, c) ==
    LET i == IndexOf(c, s) IN <<SubSeq(s, 1, i - 1), SubSeq(s, i + 1, Len(s))>>

MaskKeep == 3

STARS == <<"*", "*", "*", "@">>
UNKNOWN == <<"u", "n", "k", "n", "o", "w", "n">>

\* mask_account: [raised |-> NONE, val |-> the masked string] or
\* [raised |-> "IndexError", val |-> <<>>] when name[0] indexes an empty name
mask_account(account) ==
    IF account = <<>> \/ ~Contains("@", account)
    THEN [raised |-> NONE, val |-> UNKNOWN]
    ELSE LET name   == Split1(account, "@")[1]
             domain == Split1(account, "@")[2]
         IN  IF Len(name) <= MaskKeep
             THEN IF name = <<>>
                  THEN [raised |-> "IndexError", val |-> <<>>]
                  ELSE [raised |-> NONE, val |-> <<name[1]>> \o STARS \o domain]
             ELSE [raised |-> NONE, val |-> SubSeq(name, 1, MaskKeep) \o STARS \o domain]

\* os.environ.get(key, "")
EnvGet(key) == IF key \in DOMAIN environ THEN environ[key] ELSE <<>>

\* ------------------------------------------------------------------ files

CHROME_CANDIDATES ==
    <<"/usr/bin/chromium", "/usr/bin/chromium-browser",
      "/usr/bin/google-chrome", "/usr/bin/google-chrome-stable">>

DRIVER_CANDIDATES == <<"/usr/bin/chromedriver", "/usr/local/bin/chromedriver">>

\* the first candidate that exists, or None
FirstExisting(candidates) ==
    IF \E i \in 1..Len(candidates) : candidates[i] \in files
    THEN candidates[CHOOSE i \in 1..Len(candidates) :
                        /\ candidates[i] \in files
                        /\ \A j \in 1..(i - 1) : candidates[j] \notin files]
    ELSE NONE

find_chrome == FirstExisting(CHROME_CANDIDATES)

find_chromedriver == FirstExisting(DRIVER_CANDIDATES)

\* ------------------------------------------------------------------ the site

\* values driver.current_url can take
URLS ==
    { <<"https://", "run.claw.cloud", "/">>,
      <<"https://", "run.claw.cloud", "/", "signin">>,
      <<"https://", "run.claw.cloud", "/", "private-team">>,
      <<"https://", "github.com", "/", "login">>,
      <<"https://", "github.com", "/", "sessions", "/", "two-factor">>,
      <<"https://", "github.com", "/", "sessions", "/", "two_factor">>,
      <<"https://", "github.com", "/", "login", "/", "oauth", "/", "Authorize">>,
      <<"https://", "github.com", "/", "Console">>,
      <<"https://", "run.claw.cloud", "/", "signin", "?redirect=", "console">> }

\* values driver.page_source can take
PAGES ==
    { <<"<html>", "App Launchpad", "</html>">>,
      <<"<html>", "DevBox", "</html>">>,
      <<"<html>", "Sign in", "</html>">> }

\* str.lower() of one token
LowerTok(t) ==
    CASE t = "Authorize"     -> "authorize"
      [] t = "Console"       -> "console"
      [] t = "App Launchpad" -> "app launchpad"
      [] t = "DevBox"        -> "devbox"
      [] t = "Sign in"       -> "sign in"
      [] OTHER               -> t

\* str.lower()
Lower(s) == [i \in 1..Len(s) |-> LowerTok(s[i])]

\* line 188
IsGitHubLogin(u1, u2) == Contains("github.com", u1) /\ Contains("login", u2)

\* Is2FA with `or "two_factor"` left without its `in driver.current_url`:
\* a non-empty string is true
Is2FA_truthy(u1, u2) == Contains("two-factor", u1) \/ TRUE

\* line 217; the second read happens only when the first test fails
Is2FA(u1, u2) == Contains("two-factor", u1) \/ Contains("two_factor", u2)

\* line 307
IsAuthorizePage(u) == Contains("authorize", Lower(u))

\* Decide with `or` for `and` in the third test
Decide_or(url, text) ==
    \/ Contains("app launchpad", text) \/ Contains("devbox", text)
    \/ Contains("private-team", url) \/ Contains("console", url)
    \/ (~Contains("signin", url) \/ ~Contains("github.com", url))

\* lines 332-345: the three success tests, page already lower-cased
Decide(url, text) ==
    \/ Contains("app launchpad", text) \/ Contains("devbox", text)
    \/ Contains("private-team", url) \/ Contains("console", url)
    \/ (~Contains("signin", url) /\ ~Contains("github.com", url))

\* ------------------------------------------------------------------ notification

FAILURE_KINDS ==
    {"missing_credentials", "no_chromium", "fatal_2fa_no_secret",
     "totp_entry_failed", "login_failed", "exception"}

\* what a call of send_tg_message can do: skip when the token or the chat id
\* is empty after strip, else post and get 200, another status, or an exception
Deliveries ==
    IF Strip(EnvGet("TG_BOT_TOKEN")) = <<>> \/ Strip(EnvGet("TG_CHAT_ID")) = <<>>
    THEN {"skipped"}
    ELSE {"ok", "http_error", "post_failed"}

\* send_tg_message(text) with the message of the given kind; it never raises
send_tg_message(kind, d) == sent' = Append(sent, <<kind, d>>)

\* logger.error(msg)
log_error(kind) == errlog' = Append(errlog, kind)

\* ------------------------------------------------------------------ initial state

\* an environment variable that is not set
UNSET == <<"unset">>

Bind(key, value) == IF value = UNSET THEN <<>> ELSE key :> value

\* longest part before the "@" among the accounts tried
MaxName == 4

LETTERS == <<"a", "b", "c", "d", "e", "f", "g", "h">>

\* unset, blank, without "@", "@x" between blanks, and every name of 0..MaxName
\* letters followed by "@x"
USERNAMES ==
    { UNSET, <<" ">>, <<"a", "b">>, <<" ", "@", "x", " ">> }
    \cup { SubSeq(LETTERS, 1, n) \o <<"@", "x">> : n \in 0..MaxName }

PASSWORDS == { UNSET, <<" ">>, <<"p", " ">> }

SECRETS == { UNSET, <<"S">> }

\* <<TG_BOT_TOKEN, TG_CHAT_ID>>
TG_SETTINGS == { <<UNSET, UNSET>>, <<<<"t">>, <<" ">>>>, <<<<"t">>, <<"c">>>> }

FILESYSTEMS ==
    { {},
      {"/usr/bin/chromedriver"},
      {"/usr/bin/chromium-browser", "/usr/bin/google-chrome"},
      {"/usr/bin/google-chrome-stable", "/usr/local/bin/chromedriver"} }

Init ==
    /\ \E u \in USERNAMES, p \in PASSWORDS, s \in SECRETS, t \in TG_SETTINGS :
          environ = Bind("GH_USERNAME", u) @@ Bind("GH_PASSWORD", p)
                    @@ Bind("GH_2FA_SECRET", s)
                    @@ Bind("TG_BOT_TOKEN", t[1]) @@ Bind("TG_CHAT_ID", t[2])
    /\ files \in FILESYSTEMS
    /\ pc = "start"
    /\ username = <<>> /\ password = <<>> /\ totp_secret = <<>>
    /\ masked_user = <<>> /\ chrome_path = NONE /\ driver = NONE
    /\ exc = NONE /\ ret = NONE
    /\ sent = <<>> /\ errlog = <<>> /\ steps = <<>> /\ raisedAt = {}
    /\ twofa_reads = <<>> /\ typed = "none" /\ tried = <<>>
    /\ final_url = <<>> /\ page_text = <<>> /\ is_success = NONE
    /\ shots = <<>> /\ quits = 0

envVars == <<environ, files>>
credVars == <<username, password, totp_secret, masked_user>>
totpVars == <<typed, tried>>
verifyVars == <<final_url, page_text, is_success>>

\* ------------------------------------------------------------------ run_login

\* lines 93-109: read the environment, mask the account, check the credentials.
\* These lines are outside the try: an exception of mask_account leaves run_login.
ResolveEnvironment ==
    /\ pc = "start"
    /\ LET u == Strip(EnvGet("GH_USERNAME"))
           p == Strip(EnvGet("GH_PASSWORD"))
           s == Strip(EnvGet("GH_2FA_SECRET"))
           m == mask_account(u)
       IN  /\ username' = u /\ password' = p /\ totp_secret' = s
           /\ IF m.raised # NONE
              THEN /\ exc' = m.raised
                   /\ pc' = "raised"
                   /\ UNCHANGED <<masked_user, ret, sent, errlog>>
              ELSE /\ masked_user' = m.val
                   /\ exc' = exc
                   /\ IF u = <<>> \/ p = <<>>
                      THEN /\ log_error("missing_credentials")
                           /\ \E d \in Deliveries : send_tg_message("missing_credentials", d)
                           /\ ret' = "False"
                           /\ pc' = "returned"
                      ELSE /\ pc' = "configure"
                           /\ UNCHANGED <<ret, sent, errlog>>
    /\ UNCHANGED <<envVars, chrome_path, driver, steps, raisedAt, twofa_reads,
                   totpVars, verifyVars, shots, quits>>

\* lines 117-144: find_chrome, give up when no Chromium exists
ConfigureBrowser ==
    /\ pc = "configure"
    /\ chrome_path' = find_chrome
    /\ IF find_chrome = NONE
       THEN /\ log_error("no_chromium")
            /\ \E d \in Deliveries : send_tg_message("no_chromium", d)
            /\ ret' = "False"
            /\ pc' = "returned"
       ELSE /\ pc' = "start_browser"
            /\ UNCHANGED <<ret, sent, errlog>>
    /\ UNCHANGED <<envVars, credVars, driver, exc, steps, raisedAt, twofa_reads,
                   totpVars, verifyVars, shots, quits>>

\* RaiseAt with the outer handler reduced to `except Exception: pass`
RaiseAt_pass(step) ==
    /\ exc' = exc
    /\ raisedAt' = raisedAt \cup {step}
    /\ pc' = "finally"

\* an exception reaches `except Exception` of line 370
RaiseAt(step) ==
    /\ exc' = step
    /\ raisedAt' = raisedAt \cup {step}
    /\ pc' = "except"

\* lines 146-163: webdriver.Chrome with or without a Service, execute_script.
\* An exception of webdriver.Chrome leaves driver None.
StartBrowser ==
    /\ pc = "start_browser"
    /\ \/ /\ driver' = NONE
          /\ exc' = "webdriver.Chrome"
          /\ pc' = "except"
          /\ UNCHANGED raisedAt
       \/ /\ driver' = "driver"
          /\ RaiseAt("execute_script")
       \/ /\ driver' = "driver"
          /\ pc' = "navigate"
          /\ UNCHANGED <<exc, raisedAt>>
    /\ UNCHANGED <<envVars, credVars, chrome_path, ret, sent, errlog, steps,
                   twofa_reads, totpVars, verifyVars, shots, quits>>

\* lines 165-169: driver.get(target_url)
Navigate ==
    /\ pc = "navigate"
    /\ steps' = Append(steps, "navigate")
    /\ \/ RaiseAt("navigate")
       \/ /\ pc' = "click_github"
          /\ UNCHANGED <<exc, raisedAt>>
    /\ UNCHANGED <<envVars, credVars, chrome_path, driver, ret, sent, errlog,
                   twofa_reads, totpVars, verifyVars, shots, quits>>

\* ClickGitHub that reloads the page and starts over when the click raises
ClickGitHub_retry ==
    /\ pc = "click_github"
    /\ steps' = Append(steps, "click_github")
    /\ \/ /\ raisedAt' = raisedAt \cup {"click_github"}
          /\ pc' = "navigate"
       \/ /\ UNCHANGED raisedAt
          /\ pc' = "check_login"
    /\ UNCHANGED <<envVars, credVars, chrome_path, driver, exc, ret, sent, errlog,
                   twofa_reads, totpVars, verifyVars, shots, quits>>

\* lines 171-181: wait for the GitHub button and click it; an exception is
\* logged as a warning and the run goes on
ClickGitHub ==
    /\ pc = "click_github"
    /\ steps' = Append(steps, "click_github")
    /\ \/ raisedAt' = raisedAt \cup {"click_github"}
       \/ UNCHANGED raisedAt
    /\ pc' = "check_login"
    /\ UNCHANGED <<envVars, credVars, chrome_path, driver, exc, ret, sent, errlog,
                   twofa_reads, totpVars, verifyVars, shots, quits>>

\* lines 183-188: two reads of driver.current_url, the second only when the
\* first contains "github.com"
CheckLoginPage ==
    /\ pc = "check_login"
    /\ \/ RaiseAt("url_read")
       \/ /\ \E u1, u2 \in URLS :
                pc' = IF IsGitHubLogin(u1, u2) THEN "fill_login" ELSE "check_2fa"
          /\ UNCHANGED <<exc, raisedAt>>
    /\ UNCHANGED <<envVars, credVars, chrome_path, driver, ret, sent, errlog,
                   steps, twofa_reads, totpVars, verifyVars, shots, quits>>

\* lines 189-213: fill login_field and password, click commit; an exception is
\* logged and the run goes on
FillLogin ==
    /\ pc = "fill_login"
    /\ steps' = Append(steps, "fill_login")
    /\ \/ raisedAt' = raisedAt \cup {"fill_login"}
       \/ UNCHANGED raisedAt
    /\ pc' = "check_2fa"
    /\ UNCHANGED <<envVars, credVars, chrome_path, driver, exc, ret, sent, errlog,
                   twofa_reads, totpVars, verifyVars, shots, quits>>

\* ShotThenReturnFalse outside the try ... finally: the return skips driver.quit
ShotThenReturnFalse_noFinally(name) ==
    /\ shots' = Append(shots, name)
    /\ \/ /\ RaiseAt("screenshot")
          /\ UNCHANGED ret
       \/ /\ ret' = "False"
          /\ pc' = "returned"
          /\ UNCHANGED <<exc, raisedAt>>

\* driver.save_screenshot(name), then `return False` inside the try: the
\* screenshot may raise, which reaches `except Exception`
ShotThenReturnFalse(name) ==
    /\ shots' = Append(shots, name)
    /\ \/ /\ RaiseAt("screenshot")
          /\ UNCHANGED ret
       \/ /\ ret' = "False"
          /\ pc' = "finally"
          /\ UNCHANGED <<exc, raisedAt>>

\* lines 215-230: the 2FA check reads driver.current_url once or twice; with
\* a 2FA page and no secret the run is given up
Check2FA ==
    /\ pc = "check_2fa"
    /\ \/ /\ RaiseAt("url_read")
          /\ UNCHANGED <<twofa_reads, ret, sent, errlog, shots>>
       \/ \E u1, u2 \in URLS :
            /\ twofa_reads' = IF Contains("two-factor", u1) THEN <<TRUE>>
                              ELSE <<FALSE, Contains("two_factor", u2)>>
            /\ IF Is2FA(u1, u2)
               THEN IF totp_secret = <<>>
                    THEN /\ log_error("fatal_2fa_no_secret")
                         /\ \E d \in Deliveries : send_tg_message("fatal_2fa_no_secret", d)
                         /\ ShotThenReturnFalse("clawcloud_2fa_error.png")
                    ELSE /\ pc' = "enter_totp"
                         /\ UNCHANGED <<exc, raisedAt, ret, sent, errlog, shots>>
               ELSE /\ pc' = "check_authorize"
                    /\ UNCHANGED <<exc, raisedAt, ret, sent, errlog, shots>>
    /\ UNCHANGED <<envVars, credVars, chrome_path, driver, steps, totpVars,
                   verifyVars, quits>>

\* lines 232-252 and the handler of lines 293-303: generate the code, wait for
\* app_totp, clear it and type the code character by character
EnterTOTP ==
    /\ pc = "enter_totp"
    /\ steps' = Append(steps, "enter_totp")
    /\ \/ /\ typed' = "full"
          /\ pc' = "submit_totp"
          /\ UNCHANGED <<exc, raisedAt, ret, sent, errlog, shots>>
       \/ /\ typed' \in {"none", "partial"}
          /\ log_error("totp_entry_failed")
          /\ \E d \in Deliveries : send_tg_message("totp_entry_failed", d)
          /\ shots' = Append(shots, "clawcloud_2fa_fail.png")
          /\ \/ /\ exc' = "screenshot"
                /\ raisedAt' = raisedAt \cup {"totp_entry", "screenshot"}
                /\ pc' = "except"
                /\ UNCHANGED ret
             \/ /\ raisedAt' = raisedAt \cup {"totp_entry"}
                /\ ret' = "False"
                /\ pc' = "finally"
                /\ UNCHANGED exc
    /\ UNCHANGED <<envVars, credVars, chrome_path, driver, twofa_reads, tried,
                   verifyVars, quits>>

SELECTORS == <<"button[type='submit']", "input[type='submit']", "button.btn-primary">>

MECHANISMS == {SELECTORS[i] : i \in 1..Len(SELECTORS)} \cup {"RETURN", "form.submit()"}

\* ClickFrom without the `break`: every selector is clicked
RECURSIVE ClickFrom_noBreak(_, _)
ClickFrom_noBreak(o, i) ==
    IF i > Len(SELECTORS) THEN <<>>
    ELSE <<<<SELECTORS[i], o[SELECTORS[i]]>>>> \o ClickFrom_noBreak(o, i + 1)

\* lines 264-272: the selectors clicked, from the i-th on, up to and including
\* the first whose click returns (o gives the outcome of each mechanism)
RECURSIVE ClickFrom(_, _)
ClickFrom(o, i) ==
    IF i > Len(SELECTORS) THEN <<>>
    ELSE IF o[SELECTORS[i]] = "ok" THEN <<<<SELECTORS[i], "ok">>>>
    ELSE <<<<SELECTORS[i], "raise">>>> \o ClickFrom(o, i + 1)

\* lines 254-289: the mechanisms attempted with their outcomes: the selectors,
\* RETURN when no click returned, form.submit() when the RETURN path raised
Submit(o) ==
    LET sel       == ClickFrom(o, 1)
        submitted == sel # <<>> /\ sel[Len(sel)][2] = "ok"
    IN  IF submitted THEN sel
        ELSE IF o["RETURN"] = "ok" THEN sel \o <<<<"RETURN", "ok">>>>
        ELSE sel \o <<<<"RETURN", "raise">>, <<"form.submit()", o["form.submit()"]>>>>

\* lines 254-291: submit the code; every exception is caught here
SubmitTOTP ==
    /\ pc = "submit_totp"
    /\ \E o \in [MECHANISMS -> {"ok", "raise"}] :
          /\ tried' = Submit(o)
          /\ raisedAt' = IF \E i \in 1..Len(Submit(o)) : Submit(o)[i][2] = "raise"
                         THEN raisedAt \cup {"totp_submit"} ELSE raisedAt
    /\ pc' = "check_authorize"
    /\ UNCHANGED <<envVars, credVars, chrome_path, driver, exc, ret, sent, errlog,
                   steps, twofa_reads, typed, verifyVars, shots, quits>>

\* lines 305-317: on the consent page click Authorize; an exception of the
\* click is logged as a warning and the run goes on
CheckAuthorize ==
    /\ pc = "check_authorize"
    /\ \/ /\ RaiseAt("url_read")
          /\ UNCHANGED steps
       \/ \E u \in URLS :
            /\ pc' = "verify"
            /\ exc' = exc
            /\ IF IsAuthorizePage(u)
               THEN /\ steps' = Append(steps, "authorize")
                    /\ \/ raisedAt' = raisedAt \cup {"authorize"}
                       \/ UNCHANGED raisedAt
               ELSE UNCHANGED <<steps, raisedAt>>
    /\ UNCHANGED <<envVars, credVars, chrome_path, driver, ret, sent, errlog,
                   twofa_reads, totpVars, verifyVars, shots, quits>>

\* lines 347-368: the message and the return value for is_success
Outcome(ok) ==
    IF ok THEN [kind |-> "success", ret |-> "True"]
    ELSE [kind |-> "login_failed", ret |-> "False"]

\* lines 319-368: read the final URL, take the screenshot, read the page,
\* decide, notify and return
Verify ==
    /\ pc = "verify"
    /\ steps' = Append(steps, "verify")
    /\ \/ /\ RaiseAt("url_read")
          /\ UNCHANGED <<verifyVars, shots, ret, sent, errlog>>
       \/ \E u \in URLS :
            /\ final_url' = u
            /\ shots' = Append(shots, "clawcloud_result.png")
            /\ \/ /\ RaiseAt("screenshot")
                  /\ UNCHANGED <<page_text, is_success, ret, sent, errlog>>
               \/ /\ RaiseAt("page_read")
                  /\ UNCHANGED <<page_text, is_success, ret, sent, errlog>>
               \/ \E p \in PAGES :
                    /\ page_text' = Lower(p)
                    /\ is_success' = Outcome(Decide(u, Lower(p))).ret
                    /\ errlog' = IF Decide(u, Lower(p)) THEN errlog
                                 ELSE Append(errlog, "login_failed")
                    /\ \E d \in Deliveries :
                          send_tg_message(Outcome(Decide(u, Lower(p))).kind, d)
                    /\ ret' = Outcome(Decide(u, Lower(p))).ret
                    /\ pc' = "finally"
                    /\ UNCHANGED <<exc, raisedAt>>
    /\ UNCHANGED <<envVars, credVars, chrome_path, driver, twofa_reads, totpVars,
                   quits>>

\* ExceptHandler without the call of send_tg_message
ExceptHandler_silent ==
    /\ pc = "except"
    /\ log_error("exception")
    /\ IF driver # NONE
       THEN /\ shots' = Append(shots, "clawcloud_error.png")
            /\ \/ raisedAt' = raisedAt \cup {"error_screenshot"}
               \/ UNCHANGED raisedAt
       ELSE UNCHANGED <<shots, raisedAt>>
    /\ exc' = NONE
    /\ ret' = "False"
    /\ pc' = "finally"
    /\ UNCHANGED <<envVars, credVars, chrome_path, driver, sent, steps, twofa_reads,
                   totpVars, verifyVars, quits>>

\* lines 370-387: except Exception: log, notify, try the error screenshot,
\* return False
ExceptHandler ==
    /\ pc = "except"
    /\ log_error("exception")
    /\ \E d \in Deliveries : send_tg_message("exception", d)
    /\ IF driver # NONE
       THEN /\ shots' = Append(shots, "clawcloud_error.png")
            /\ \/ raisedAt' = raisedAt \cup {"error_screenshot"}
               \/ UNCHANGED raisedAt
       ELSE UNCHANGED <<shots, raisedAt>>
    /\ exc' = NONE
    /\ ret' = "False"
    /\ pc' = "finally"
    /\ UNCHANGED <<envVars, credVars, chrome_path, driver, steps, twofa_reads,
                   totpVars, verifyVars, quits>>

\* lines 389-395: finally: quit the browser when there is one (an exception of
\* quit is swallowed, so quit returning and quit raising end alike); then the
\* pending return takes place
Finally ==
    /\ pc = "finally"
    /\ quits' = IF driver # NONE THEN quits + 1 ELSE quits
    /\ pc' = "returned"
    /\ UNCHANGED <<envVars, credVars, chrome_path, driver, exc, ret, sent, errlog,
                   steps, raisedAt, twofa_reads, totpVars, verifyVars, shots>>

Next ==
    \/ ResolveEnvironment
    \/ ConfigureBrowser
    \/ StartBrowser
    \/ Navigate
    \/ ClickGitHub
    \/ CheckLoginPage
    \/ FillLogin
    \/ Check2FA
    \/ EnterTOTP
    \/ SubmitTOTP
    \/ CheckAuthorize
    \/ Verify
    \/ ExceptHandler
    \/ Finally

Spec == Init /\ [][Next]_vars

\* ------------------------------------------------------------------ properties

Range(q) == {q[i] : i \in 1..Len(q)}

\* the kinds of the messages handed to send_tg_message
Kinds == {sent[i][1] : i \in 1..Len(sent)}

LastKind == sent[Len(sent)][1]

\* the run has ended: by a return, or by an exception leaving run_login
Ended == pc \in {"returned", "raised"}

\* steps that raise into `except Exception` of line 370
UNCAUGHT == {"execute_script", "navigate", "url_read", "screenshot", "page_read"}

\* steps whose exception is caught where it is raised, the run going on
CONTINUED == {"click_github", "fill_login", "totp_submit", "authorize"}

Rank(step) ==
    CASE step = "navigate"     -> 1
      [] step = "click_github" -> 2
      [] step = "fill_login"   -> 3
      [] step = "enter_totp"   -> 4
      [] step = "authorize"    -> 5
      [] step = "verify"       -> 6

\* C2: the browser steps occur in the order navigate, click GitHub, fill
\* credentials, enter TOTP, click Authorize, verify: each at most once, none
\* after a later one, and nothing (so no verification) before navigation.
C2_StepOrder ==
    /\ \A i, j \in 1..Len(steps) : i < j => Rank(steps[i]) < Rank(steps[j])
    /\ steps # <<>> => steps[1] = "navigate"

C2_Witness ==
    /\ pc = "returned"
    /\ steps = <<"navigate", "click_github", "fill_login", "enter_totp",
                 "authorize", "verify">>

\* C3: a run that has returned has called send_tg_message, and the last message
\* is the success message exactly when True is returned, a failure or abort
\* message exactly when False is returned.
C3_LastMessageMatchesResult ==
    pc = "returned"
        => /\ sent # <<>>
           /\ ret \in {"True", "False"}
           /\ (LastKind = "success" <=> ret = "True")
           /\ (LastKind \in FAILURE_KINDS <=> ret = "False")

C3_Witness ==
    /\ pc = "returned"
    /\ ret = "True"
    /\ LastKind = "success"
    /\ sent[Len(sent)][2] = "post_failed"

\* C4: once the final URL and the page have been read, True is returned exactly
\* when the lower-cased page contains 'app launchpad' or 'devbox', or the URL
\* contains 'private-team' or 'console', or the URL contains neither 'signin'
\* nor 'github.com'; otherwise False; whatever the earlier steps did.
C4_VerdictFromUrlAndPage ==
    is_success # NONE
        => /\ ret \in {"True", "False"}
           /\ ret = "True" <=>
                \/ "app launchpad" \in Range(page_text)
                \/ "devbox" \in Range(page_text)
                \/ "private-team" \in Range(final_url)
                \/ "console" \in Range(final_url)
                \/ ("signin" \notin Range(final_url) /\ "github.com" \notin Range(final_url))

C4_Witness ==
    /\ pc = "returned"
    /\ ret = "False"
    /\ "github.com" \in Range(final_url)
    /\ "Console" \in Range(final_url)
    /\ "sign in" \in Range(page_text)
    /\ "click_github" \in raisedAt

\* C5 as stated: a browser is started only with both credentials non-empty
\* after strip and an existing Chromium; with an empty credential or without
\* Chromium the run sends a failure notification and returns False, no browser
\* having been started.
C5_NoBrowserWithoutPrerequisites ==
    LET lacking == \/ Strip(EnvGet("GH_USERNAME")) = <<>>
                   \/ Strip(EnvGet("GH_PASSWORD")) = <<>>
                   \/ find_chrome = NONE
    IN  /\ (driver # NONE \/ steps # <<>>) => ~lacking
        /\ (Ended /\ lacking)
              => /\ pc = "returned"
                 /\ ret = "False"
                 /\ sent # <<>> /\ LastKind \in FAILURE_KINDS
                 /\ driver = NONE

\* one of the `in` tests of line 217 was true
Detected == \E i \in 1..Len(twofa_reads) : twofa_reads[i]

\* C6: a TOTP code is generated and typed only when a test of the 2FA check was
\* true and the secret is non-empty; with a 2FA page and no secret the first
\* message is the fatal abort, False is returned, and nothing is typed, no
\* Authorize is clicked and nothing is verified; when the check finds no 2FA
\* page the run goes to the consent check, secret or not.
C6_TotpGate ==
    /\ []((("enter_totp" \in Range(steps)) \/ typed # "none" \/ tried # <<>>)
            => (Detected /\ totp_secret # <<>>))
    /\ []((Detected /\ totp_secret = <<>>)
            => /\ sent # <<>> /\ sent[1][1] = "fatal_2fa_no_secret"
               /\ typed = "none" /\ tried = <<>>
               /\ Range(steps) \cap {"enter_totp", "authorize", "verify"} = {}
               /\ is_success = NONE
               /\ pc \in {"except", "finally", "returned"}
               /\ (pc = "returned" => ret = "False"))
    /\ [][(pc = "check_2fa" /\ twofa_reads' # <<>> /\ ~Detected')
            => (pc' = "check_authorize" /\ sent' = sent /\ ret' = ret)]_vars

C6_Witness ==
    /\ pc = "returned"
    /\ twofa_reads = <<FALSE, TRUE>>
    /\ totp_secret = <<>>
    /\ Kinds = {"fatal_2fa_no_secret"}
    /\ ret = "False"

ORDER == SELECTORS \o <<"RETURN", "form.submit()">>

\* C7: the submit mechanisms are tried in the order of the three selectors,
\* RETURN, form.submit(); only the last one tried can have succeeded (so the
\* clicks stop at the first success, RETURN needs three failed clicks and
\* form.submit() a failed RETURN), the trying ends only with a success or with
\* all five tried, and whatever the outcomes the run goes on to the consent
\* check and, no later step raising, to the verification.
C7_SubmitOrder ==
    /\ [](/\ Len(tried) <= Len(ORDER)
          /\ \A i \in 1..Len(tried) :
                /\ tried[i][1] = ORDER[i]
                /\ i < Len(tried) => tried[i][2] = "raise")
    /\ []((typed = "full" /\ pc # "submit_totp")
            => /\ tried # <<>>
               /\ (tried[Len(tried)][2] = "ok" \/ Len(tried) = Len(ORDER)))
    /\ [][pc = "submit_totp"
            => (pc' = "check_authorize" /\ ret' = ret /\ sent' = sent /\ exc' = exc)]_vars
    /\ []((pc = "returned" /\ tried # <<>> /\ raisedAt \cap UNCAUGHT = {})
            => ("verify" \in Range(steps) /\ is_success # NONE))

C7_Witness ==
    /\ pc = "returned"
    /\ Len(tried) = Len(ORDER)
    /\ \A i \in 1..Len(tried) : tried[i][2] = "raise"
    /\ "verify" \in Range(steps)
    /\ is_success # NONE

\* C8: with a browser started driver.quit is attempted exactly once, after the
\* messages of the run have been sent and as the last thing before the return;
\* without a browser it is never attempted.
C8_QuitOnce ==
    /\ [](/\ quits <= 1
          /\ driver = NONE => quits = 0
          /\ pc = "returned" => quits = (IF driver # NONE THEN 1 ELSE 0))
    /\ [][quits' # quits
            => /\ sent # <<>> /\ sent' = sent
               /\ ret \in {"True", "False"} /\ ret' = ret
               /\ pc' = "returned"]_vars

C8_Witness ==
    /\ pc = "returned"
    /\ quits = 1
    /\ Kinds = {"fatal_2fa_no_secret"}
    /\ shots = <<"clawcloud_2fa_error.png">>

\* C9 as stated: for every value of GH_USERNAME, GH_PASSWORD and GH_2FA_SECRET
\* the run ends by returning True or False, no exception leaving run_login,
\* and mask_account returns a string.
C9_AlwaysReturns ==
    /\ Ended => (pc = "returned" /\ ret \in {"True", "False"})
    /\ pc # "start" => mask_account(username).raised = NONE

====
